---- MODULE Spec2Model ----
(***************************************************************************)
(* Model of olympia/access/acl.py: the rule matcher (match_rules), the     *)
(* capability resolver (action_allowed_user) and the policy predicates     *)
(* built on them.                                                          *)
(*                                                                         *)
(* A Python string is a sequence of symbols.  The separators "," and ":"   *)
(* and the wildcards "*" and "%" are symbols of their own; every other     *)
(* symbol ("Addons", "Edit", ...) stands for a run of ordinary characters. *)
(* A Python call either returns a bool or raises: the outcome of a call is *)
(* one of "True", "False", "ValueError", "AssertionError".                 *)
(***************************************************************************)
EXTENDS Integers, Sequences, FiniteSets, TLC

VARIABLES fn, rules, permission, user, addon, collection, flags, result

vars == <<fn, rules, permission, user, addon, collection, flags, result>>

\* Longest rule string handed to match_rules directly.
MaxLen == 5

\* Longest groups_list of a user.
MaxGroups == 2

True == "True"

False == "False"

ValueError == "ValueError"

AssertionError == "AssertionError"

Bool(b) == IF b THEN True ELSE False

----------------------------------------------------------------------------
(* Strings *)

\* Symbols a rule string handed to match_rules is made of.
Alphabet == {"Addons", "Edit", "*", ":", ","}

RECURSIVE StringsOfLen(_)
StringsOfLen(n) ==
  IF n = 0 THEN {<<>>}
  ELSE {Append(s, c) : s \in StringsOfLen(n - 1), c \in Alphabet}

Strings == UNION {StringsOfLen(n) : n \in 0..MaxLen}

\* str.split(sep) for a one-symbol separator: the fields between the
\* separators, always at least one field ("".split(",") is [""]).
RECURSIVE split(_, _)
split(s, sep) ==
  IF \A i \in 1..Len(s) : s[i] # sep
  THEN <<s>>
  ELSE LET k == CHOOSE i \in 1..Len(s) :
                  s[i] = sep /\ \A j \in 1..(i - 1) : s[j] # sep
       IN  <<SubSeq(s, 1, k - 1)>> \o split(SubSeq(s, k + 1, Len(s)), sep)

----------------------------------------------------------------------------
(* match_rules *)

\* Variant of RuleGrants: a requested '%' bypasses the domain test as well.
RuleGrants_percent_any_app(rule_app, rule_action, app, action) ==
  /\ rule_app = <<"*">> \/ rule_app = app \/ action = <<"%">>
  /\ rule_action = <<"*">> \/ rule_action = action \/ action = <<"%">>

\* The test of the two nested ifs on an unpacked rule.
RuleGrants(rule_app, rule_action, app, action) ==
  /\ rule_app = <<"*">> \/ rule_app = app
  /\ rule_action = <<"*">> \/ rule_action = action \/ action = <<"%">>

\* Variant of match_loop: a rule that does not unpack is skipped.
RECURSIVE match_loop_skip(_, _, _)
match_loop_skip(rs, app, action) ==
  IF rs = <<>> THEN False
  ELSE LET parts == split(Head(rs), ":")
       IN  IF Len(parts) # 2 THEN match_loop_skip(Tail(rs), app, action)
           ELSE IF RuleGrants(parts[1], parts[2], app, action) THEN True
           ELSE match_loop_skip(Tail(rs), app, action)

\* The for loop over rules.split(','): unpacking a rule that does not split
\* into exactly two fields raises ValueError, the first granting rule returns.
RECURSIVE match_loop(_, _, _)
match_loop(rs, app, action) ==
  IF rs = <<>> THEN False
  ELSE LET parts == split(Head(rs), ":")
       IN  IF Len(parts) # 2 THEN ValueError
           ELSE IF RuleGrants(parts[1], parts[2], app, action) THEN True
           ELSE match_loop(Tail(rs), app, action)

match_rules(rs, app, action) == match_loop(split(rs, ","), app, action)

----------------------------------------------------------------------------
(* Constants acl.py reads from olympia.amo, constants.permissions, settings *)

AclPermission(app, action) == [app |-> <<app>>, action |-> <<action>>]

ADDONS_EDIT == AclPermission("Addons", "Edit")

ADDONS_REVIEW == AclPermission("Addons", "Review")

ADDONS_RECOMMENDED_REVIEW == AclPermission("Addons", "RecommendedReview")

ADDONS_CONTENT_REVIEW == AclPermission("Addons", "ContentReview")

STATIC_THEMES_REVIEW == AclPermission("Addons", "ThemeReview")

ADMIN_CURATION == AclPermission("Admin", "Curation")

COLLECTIONS_CONTRIBUTE == AclPermission("Collections", "Contribute")

PERMISSIONS_LIST ==
  {ADDONS_EDIT, ADDONS_REVIEW, ADDONS_RECOMMENDED_REVIEW, ADDONS_CONTENT_REVIEW,
   STATIC_THEMES_REVIEW, ADMIN_CURATION, COLLECTIONS_CONTRIBUTE}

STATUS_DISABLED == "STATUS_DISABLED"

STATUS_APPROVED == "STATUS_APPROVED"

ADDON_STATICTHEME == "ADDON_STATICTHEME"

ADDON_EXTENSION == "ADDON_EXTENSION"

AUTHOR_ROLE_OWNER == "AUTHOR_ROLE_OWNER"

AUTHOR_ROLE_DEV == "AUTHOR_ROLE_DEV"

AUTHOR_ROLE_DELETED == "AUTHOR_ROLE_DELETED"

TASK_USER_ID == "task_user"

COLLECTION_FEATURED_THEMES_ID == "featured_themes"

----------------------------------------------------------------------------
(* action_allowed_user, action_allowed *)

\* A call raised instead of returning a bool.
Raised(outcome) == outcome \notin {True, False}

\* Variant of any: all().
RECURSIVE any_all(_)
any_all(outcomes) ==
  IF outcomes = <<>> THEN True
  ELSE IF Head(outcomes) = True THEN any_all(Tail(outcomes))
  ELSE Head(outcomes)

\* Variant of any: the last group decides.
any_last(outcomes) ==
  IF outcomes = <<>> THEN False ELSE outcomes[Len(outcomes)]

\* The builtin any() over a generator of calls: the calls are made in order,
\* the first True ends the scan, a call that raises ends it with its error.
RECURSIVE any(_)
any(outcomes) ==
  IF outcomes = <<>> THEN False
  ELSE IF Head(outcomes) = False THEN any(Tail(outcomes))
  ELSE Head(outcomes)

\* Variant of action_allowed_user: the assert comes before the
\* authentication test.
action_allowed_user_assert_first(u, p) ==
  IF p \notin PERMISSIONS_LIST THEN AssertionError
  ELSE IF ~u.is_authenticated THEN False
  ELSE any([i \in 1..Len(u.groups_list) |->
              match_rules(u.groups_list[i].rules, p.app, p.action)])

action_allowed_user(u, p) ==
  IF ~u.is_authenticated THEN False
  ELSE IF p \notin PERMISSIONS_LIST THEN AssertionError
  ELSE any([i \in 1..Len(u.groups_list) |->
              match_rules(u.groups_list[i].rules, p.app, p.action)])

action_allowed(request, p) == action_allowed_user(request.user, p)

----------------------------------------------------------------------------
(* Policy predicates *)

\* Variant of check_collection_ownership: require_owner is not consulted.
check_collection_ownership_no_require(request, c, require_owner) ==
  IF ~request.user.is_authenticated THEN False
  ELSE IF request.user.id = c.author_id THEN True
  ELSE LET curation == IF c.author_id = TASK_USER_ID
                       THEN action_allowed_user(request.user, ADMIN_CURATION)
                       ELSE False
       IN  IF curation # False THEN curation
           ELSE IF c.pk = COLLECTION_FEATURED_THEMES_ID
                THEN action_allowed_user(request.user, COLLECTIONS_CONTRIBUTE)
                ELSE False

check_collection_ownership(request, c, require_owner) ==
  IF ~request.user.is_authenticated THEN False
  ELSE IF request.user.id = c.author_id THEN True
  ELSE LET curation == IF c.author_id = TASK_USER_ID
                       THEN action_allowed_user(request.user, ADMIN_CURATION)
                       ELSE False
       IN  IF curation # False THEN curation
           ELSE IF ~require_owner
                THEN IF c.pk = COLLECTION_FEATURED_THEMES_ID
                     THEN action_allowed_user(request.user, COLLECTIONS_CONTRIBUTE)
                     ELSE False
                ELSE False

\* Variant of check_addon_ownership: the deleted test comes after the
\* Addons:Edit test.
check_addon_ownership_deleted_late(request, a, dev, admin, ignore_disabled) ==
  IF ~request.user.is_authenticated THEN False
  ELSE LET edit == IF admin THEN action_allowed(request, ADDONS_EDIT) ELSE False
           roles == {AUTHOR_ROLE_OWNER} \cup (IF dev THEN {AUTHOR_ROLE_DEV} ELSE {})
       IN  IF edit # False THEN edit
           ELSE IF a.is_deleted THEN False
           ELSE IF a.status = STATUS_DISABLED /\ ~ignore_disabled THEN False
           ELSE Bool(\E au \in a.addonuser_set :
                       au.user = request.user.id /\ au.role \in roles)

\* Variant of check_addon_ownership: the disabled test comes before the
\* Addons:Edit test.
check_addon_ownership_disabled_first(request, a, dev, admin, ignore_disabled) ==
  IF ~request.user.is_authenticated THEN False
  ELSE IF a.is_deleted THEN False
  ELSE IF a.status = STATUS_DISABLED /\ ~ignore_disabled THEN False
  ELSE LET edit == IF admin THEN action_allowed(request, ADDONS_EDIT) ELSE False
           roles == {AUTHOR_ROLE_OWNER} \cup (IF dev THEN {AUTHOR_ROLE_DEV} ELSE {})
       IN  IF edit # False THEN edit
           ELSE Bool(\E au \in a.addonuser_set :
                       au.user = request.user.id /\ au.role \in roles)

check_addon_ownership(request, a, dev, admin, ignore_disabled) ==
  IF ~request.user.is_authenticated THEN False
  ELSE IF a.is_deleted THEN False
  ELSE LET edit == IF admin THEN action_allowed(request, ADDONS_EDIT) ELSE False
           roles == {AUTHOR_ROLE_OWNER} \cup (IF dev THEN {AUTHOR_ROLE_DEV} ELSE {})
       IN  IF edit # False THEN edit
           ELSE IF a.status = STATUS_DISABLED /\ ~ignore_disabled THEN False
           ELSE Bool(\E au \in a.addonuser_set :
                       au.user = request.user.id /\ au.role \in roles)

check_listed_addons_reviewer(request, allow_content_reviewers) ==
  LET permissions ==
        <<ADDONS_REVIEW, ADDONS_RECOMMENDED_REVIEW>>
          \o (IF allow_content_reviewers THEN <<ADDONS_CONTENT_REVIEW>> ELSE <<>>)
  IN  any([i \in 1..Len(permissions) |-> action_allowed(request, permissions[i])])

check_static_theme_reviewer(request) == action_allowed(request, STATIC_THEMES_REVIEW)

\* Variant of is_reviewer: a listed reviewer also reviews static themes.
is_reviewer_listed_too(request, a, allow_content_reviewers) ==
  IF a.type = ADDON_STATICTHEME
  THEN any(<<check_static_theme_reviewer(request),
             check_listed_addons_reviewer(request, allow_content_reviewers)>>)
  ELSE check_listed_addons_reviewer(request, allow_content_reviewers)

is_reviewer(request, a, allow_content_reviewers) ==
  IF a.type = ADDON_STATICTHEME
  THEN check_static_theme_reviewer(request)
  ELSE check_listed_addons_reviewer(request, allow_content_reviewers)

----------------------------------------------------------------------------
(* Inputs *)

\* A Group row: only its rules column is read.
Group(rs) == [rules |-> rs]

\* The rule string "app:action".
Rule(app, action) == <<app, ":", action>>

\* The groups_list values of at most MaxGroups groups with rules in rs.
RECURSIVE GroupLists(_, _)
GroupLists(rs, n) ==
  IF n = 0 THEN {<<>>}
  ELSE GroupLists(rs, n - 1)
         \cup {Append(gl, Group(r)) : gl \in {l \in GroupLists(rs, n - 1) : Len(l) = n - 1},
                                      r \in rs}

\* A user: AnonymousUser has no id, an authenticated user is user "u1".
Users(rs) ==
  {[is_authenticated |-> a, id |-> IF a THEN "u1" ELSE "None", groups_list |-> gl] :
     a \in BOOLEAN, gl \in GroupLists(rs, MaxGroups)}

\* Rule strings of the groups of the users action_allowed_user is called for:
\* granting, not granting, universal, without ':', and a granting rule
\* followed by one without ':'.
UserRules ==
  {Rule("Addons", "Edit"), Rule("Reviews", "Edit"), Rule("*", "*"),
   <<"Addons">>, Rule("Addons", "Edit") \o <<",", "Addons">>}

NOT_A_PERMISSION == AclPermission("Tests", "Nothing")

UserPermissions == {ADDONS_EDIT, ADDONS_REVIEW, NOT_A_PERMISSION}

OwnerRules ==
  {Rule("Addons", "Edit"), Rule("Addons", "Review"), Rule("*", "*"), <<"Addons">>}

Addons ==
  {[is_deleted |-> d, status |-> st, type |-> ADDON_EXTENSION, addonuser_set |-> au] :
     d \in BOOLEAN, st \in {STATUS_DISABLED, STATUS_APPROVED},
     au \in {{}, {[user |-> "u1", role |-> AUTHOR_ROLE_OWNER]},
             {[user |-> "u1", role |-> AUTHOR_ROLE_DEV]},
             {[user |-> "u2", role |-> AUTHOR_ROLE_OWNER],
              [user |-> "u1", role |-> AUTHOR_ROLE_DELETED]}}}

CurationRules ==
  {Rule("Admin", "Curation"), Rule("Collections", "Contribute"), Rule("Addons", "Edit"),
   <<"Admin">>}

Collections ==
  {[author_id |-> au, pk |-> pk] :
     au \in {"u1", "u2", TASK_USER_ID}, pk \in {COLLECTION_FEATURED_THEMES_ID, "c1"}}

ReviewerRules ==
  {Rule("Addons", "Review"), Rule("Addons", "RecommendedReview"),
   Rule("Addons", "ContentReview"), Rule("Addons", "ThemeReview"),
   Rule("*", "ReviewerTools"), <<"Addons">>}

ReviewedAddons ==
  {[is_deleted |-> FALSE, status |-> STATUS_APPROVED, type |-> t, addonuser_set |-> {}] :
     t \in {ADDON_STATICTHEME, ADDON_EXTENSION}}


NoPermission == [app |-> <<>>, action |-> <<>>]

NoUser == [is_authenticated |-> FALSE, id |-> "None", groups_list |-> <<>>]

NoAddon == [is_deleted |-> FALSE, status |-> "None", type |-> "None", addonuser_set |-> {}]

NoCollection == [author_id |-> "None", pk |-> "None"]

NoFlags == [dev |-> FALSE, admin |-> FALSE, ignore_disabled |-> FALSE,
            require_owner |-> FALSE, allow_content_reviewers |-> FALSE]

\* The (app, action) pairs match_rules is called with.
RequestedApps == {<<"Addons">>, <<"Reviews">>}

RequestedActions == {<<"Edit">>, <<"%">>}

----------------------------------------------------------------------------
(* Behaviour: a caller, idle at fn = "none", makes one call of a function   *)
(* of acl.py and takes its outcome.                                        *)

Init ==
  /\ fn = "none"
  /\ rules = <<>>
  /\ permission = NoPermission
  /\ user = NoUser
  /\ addon = NoAddon
  /\ collection = NoCollection
  /\ flags = NoFlags
  /\ result = False

Call_match_rules ==
  /\ fn = "none"
  /\ \E rs \in Strings, app \in RequestedApps, action \in RequestedActions :
        /\ fn' = "match_rules"
        /\ rules' = rs
        /\ permission' = [app |-> app, action |-> action]
        /\ result' = match_rules(rs, app, action)
        /\ UNCHANGED <<user, addon, collection, flags>>

Call_action_allowed_user ==
  /\ fn = "none"
  /\ \E u \in Users(UserRules), p \in UserPermissions :
        /\ fn' = "action_allowed_user"
        /\ user' = u
        /\ permission' = p
        /\ result' = action_allowed_user(u, p)
        /\ UNCHANGED <<rules, addon, collection, flags>>

Call_check_addon_ownership ==
  /\ fn = "none"
  /\ \E u \in Users(OwnerRules), a \in Addons, dev \in BOOLEAN, admin \in BOOLEAN,
        ignore_disabled \in BOOLEAN :
        /\ fn' = "check_addon_ownership"
        /\ user' = u
        /\ addon' = a
        /\ flags' = [NoFlags EXCEPT !.dev = dev, !.admin = admin,
                                    !.ignore_disabled = ignore_disabled]
        /\ result' = check_addon_ownership([user |-> u], a, dev, admin, ignore_disabled)
        /\ UNCHANGED <<rules, permission, collection>>

Call_check_collection_ownership ==
  /\ fn = "none"
  /\ \E u \in Users(CurationRules), c \in Collections, require_owner \in BOOLEAN :
        /\ fn' = "check_collection_ownership"
        /\ user' = u
        /\ collection' = c
        /\ flags' = [NoFlags EXCEPT !.require_owner = require_owner]
        /\ result' = check_collection_ownership([user |-> u], c, require_owner)
        /\ UNCHANGED <<rules, permission, addon>>

Call_is_reviewer ==
  /\ fn = "none"
  /\ \E u \in Users(ReviewerRules), a \in ReviewedAddons, allow_content_reviewers \in BOOLEAN :
        /\ fn' = "is_reviewer"
        /\ user' = u
        /\ addon' = a
        /\ flags' = [NoFlags EXCEPT !.allow_content_reviewers = allow_content_reviewers]
        /\ result' = is_reviewer([user |-> u], a, allow_content_reviewers)
        /\ UNCHANGED <<rules, permission, collection>>

\* The call is over: the caller has the outcome and nothing is retained.
Return ==
  /\ fn # "none"
  /\ fn' = "none"
  /\ rules' = <<>>
  /\ permission' = NoPermission
  /\ user' = NoUser
  /\ addon' = NoAddon
  /\ collection' = NoCollection
  /\ flags' = NoFlags
  /\ result' = False

Next ==
  \/ Call_match_rules
  \/ Call_action_allowed_user
  \/ Call_check_addon_ownership
  \/ Call_check_collection_ownership
  \/ Call_is_reviewer
  \/ Return

Spec == Init /\ [][Next]_vars

----------------------------------------------------------------------------
(* Properties.  The rule sets are read here by position, without split.    *)

\* The positions that delimit the comma-separated rules of s.
RuleBounds(s) == {0, Len(s) + 1} \cup {i \in 1..Len(s) : s[i] = ","}

\* <<p, q>>: a rule of s lies strictly between the delimiters p and q.
RuleSpans(s) ==
  {sp \in RuleBounds(s) \X RuleBounds(s) :
     sp[1] < sp[2] /\ ~\E r \in RuleBounds(s) : sp[1] < r /\ r < sp[2]}

RuleAt(s, sp) == SubSeq(s, sp[1] + 1, sp[2] - 1)

Colons(r) == {i \in 1..Len(r) : r[i] = ":"}

\* domain:action, one separator.
WellFormedRule(r) == Cardinality(Colons(r)) = 1

\* No ':' separator at all.
MalformedRule(r) == Colons(r) = {}

\* The rule r authorizes the requested (app, action).
Authorizes(r, app, action) ==
  /\ WellFormedRule(r)
  /\ LET c == CHOOSE i \in Colons(r) : TRUE
         domain == SubSeq(r, 1, c - 1)
         act == SubSeq(r, c + 1, Len(r))
     IN  /\ domain \in {<<"*">>, app}
         /\ act \in {<<"*">>, action} \/ action = <<"%">>

\* Some rule of the rule set s authorizes (app, action).
SomeRuleAuthorizes(s, app, action) ==
  \E sp \in RuleSpans(s) : Authorizes(RuleAt(s, sp), app, action)

\* Some group of the authenticated user u has a rule authorizing p.
Holds(u, p) ==
  /\ u.is_authenticated
  /\ \E i \in 1..Len(u.groups_list) :
       SomeRuleAuthorizes(u.groups_list[i].rules, p.app, p.action)

\* C1: on a rule set of well-formed domain:action rules, match_rules returns
\* true iff some rule has domain '*' or the requested domain, and action '*'
\* or the requested action or the requested action is '%'; false otherwise.
C1_MatchIffSomeRuleAuthorizes ==
  (fn = "match_rules" /\ \A sp \in RuleSpans(rules) : WellFormedRule(RuleAt(rules, sp)))
    => result = Bool(SomeRuleAuthorizes(rules, permission.app, permission.action))

\* 'Addons:Edit' was asked for (Reviews, '%') and did not grant it.
C1_Witness ==
  /\ fn = "match_rules"
  /\ rules = Rule("Addons", "Edit")
  /\ permission = [app |-> <<"Reviews">>, action |-> <<"%">>]
  /\ result = False

\* C4: match_rules called with the empty rule string returns false.
C4_EmptyRulesReturnFalse ==
  (fn = "match_rules" /\ rules = <<>>) => result = False

\* C5: a rule set containing a rule without ':' makes match_rules fail with
\* an error, never return a boolean.
C5_MalformedAlwaysFails ==
  (fn = "match_rules" /\ \E sp \in RuleSpans(rules) : MalformedRule(RuleAt(rules, sp)))
    => Raised(result)

\* No rule up to and including the one ending at delimiter q fails to unpack.
UnpacksUpTo(s, q) ==
  \A sp \in RuleSpans(s) : sp[2] <= q => WellFormedRule(RuleAt(s, sp))

\* C5 (amended): a rule set containing a rule without ':' makes match_rules
\* fail with ValueError, unless a rule authorizing the request comes before
\* every rule that fails to unpack: then it returns true, the malformed rule
\* unexamined.  It never returns false.
C5_MalformedFailsUnlessGrantedBefore ==
  (fn = "match_rules" /\ \E sp \in RuleSpans(rules) : MalformedRule(RuleAt(rules, sp)))
    => result =
         IF \E sp \in RuleSpans(rules) :
              /\ Authorizes(RuleAt(rules, sp), permission.app, permission.action)
              /\ UnpacksUpTo(rules, sp[2])
         THEN True
         ELSE ValueError

\* A rule without ':' came first, an authorizing rule after it: ValueError.
C5_Witness ==
  /\ fn = "match_rules"
  /\ rules = <<"Addons", ",">> \o Rule("*", "*")
  /\ result = ValueError

\* What match_rules gives for the i-th group of the user of the call.
GroupOutcome(i) ==
  match_rules(user.groups_list[i].rules, permission.app, permission.action)

\* action_allowed_user was called for an authenticated user and a permission
\* of the enumeration.
AllowedUserCall ==
  /\ fn = "action_allowed_user"
  /\ user.is_authenticated
  /\ permission \in PERMISSIONS_LIST

\* C2: for an authenticated user and an enumerated permission,
\* action_allowed_user returns true iff match_rules returns true for the
\* rule set of at least one group of the user.
C2_TrueIffSomeGroupMatches ==
  AllowedUserCall
    => (result = True <=> \E i \in 1..Len(user.groups_list) : GroupOutcome(i) = True)

\* C2 (amended): action_allowed_user returns true iff match_rules returns
\* true for some group and raises for no group listed before it; it returns
\* false iff match_rules returns false for every group (no groups: denied);
\* otherwise it raises the error match_rules raised for a group.  No group
\* turns the grant of another group into a denial.
C2_TrueIffSomeGroupMatchesBeforeAnyError ==
  AllowedUserCall
    => /\ result = True <=>
            \E i \in 1..Len(user.groups_list) :
              /\ GroupOutcome(i) = True
              /\ \A j \in 1..(i - 1) : ~Raised(GroupOutcome(j))
       /\ result = False <=>
            \A i \in 1..Len(user.groups_list) : GroupOutcome(i) = False
       /\ Raised(result) =>
            \E i \in 1..Len(user.groups_list) : GroupOutcome(i) = result

\* The first group does not grant Addons:Edit, the second does: allowed.
C2_Witness ==
  /\ AllowedUserCall
  /\ permission = ADDONS_EDIT
  /\ user.groups_list = <<Group(Rule("Reviews", "Edit")), Group(Rule("Addons", "Edit"))>>
  /\ result = True

\* C3: for an unauthenticated user action_allowed_user returns false,
\* whatever the groups_list holds and whether or not the permission is one
\* of the enumeration.
C3_UnauthenticatedDenied ==
  (fn = "action_allowed_user" /\ ~user.is_authenticated) => result = False

\* Unauthenticated, a permission outside the enumeration, a group without
\* ':' and a group granting everything: false.
C3_Witness ==
  /\ fn = "action_allowed_user"
  /\ ~user.is_authenticated
  /\ permission = NOT_A_PERMISSION
  /\ user.groups_list = <<Group(<<"Addons">>), Group(Rule("*", "*"))>>
  /\ result = False

\* The groups_list l without its i-th group.
Without(l, i) == SubSeq(l, 1, i - 1) \o SubSeq(l, i + 1, Len(l))

\* What action_allowed_user gives the user of the call before the i-th group
\* is added to the list.
AllowedBefore(i) ==
  action_allowed_user([user EXCEPT !.groups_list = Without(@, i)], permission)

\* C6: if action_allowed_user returns true with a groups_list, it returns
\* true with the list to which a group is added, whatever the group's rule
\* string and place in the list.
C6_AddedGroupKeepsGrant ==
  AllowedUserCall
    => \A i \in 1..Len(user.groups_list) :
         AllowedBefore(i) = True => result = True

\* C6 (amended): if action_allowed_user returns true with a groups_list,
\* then with a group G added it never returns false: it returns true, unless
\* match_rules raises on G's rule string and G is placed before the first
\* granting group, and then the call raises that error.
C6_AddedGroupNeverDenies ==
  AllowedUserCall
    => \A i \in 1..Len(user.groups_list) :
         AllowedBefore(i) = True
           => result = IF /\ Raised(GroupOutcome(i))
                          /\ \A j \in 1..(i - 1) : GroupOutcome(j) # True
                       THEN GroupOutcome(i)
                       ELSE True

\* A group without ':' was added after the granting group: still allowed.
C6_Witness ==
  /\ AllowedUserCall
  /\ permission = ADDONS_EDIT
  /\ user.groups_list = <<Group(Rule("Addons", "Edit")), Group(<<"Addons">>)>>
  /\ result = True

\* The user of the call has one of the roles on the add-on of the call.
HasRole(roles) ==
  \E au \in addon.addonuser_set : au.user = user.id /\ au.role \in roles

\* The ordered decision list of check_addon_ownership.
AddonDecision ==
  IF ~user.is_authenticated THEN FALSE
  ELSE IF addon.is_deleted THEN FALSE
  ELSE IF flags.admin /\ Holds(user, ADDONS_EDIT) THEN TRUE
  ELSE IF addon.status = STATUS_DISABLED /\ ~flags.ignore_disabled THEN FALSE
  ELSE IF flags.dev THEN HasRole({AUTHOR_ROLE_OWNER, AUTHOR_ROLE_DEV})
  ELSE HasRole({AUTHOR_ROLE_OWNER})

\* C7: check_addon_ownership returns the result of the decision list:
\* unauthenticated false; deleted false; admin and Addons:Edit true; disabled
\* and not ignore_disabled false; else owner (or developer when dev) role.
\* It returns nothing only when the Addons:Edit check it reached raised.
C7_AddonOwnershipDecisionList ==
  fn = "check_addon_ownership"
    => /\ ~Raised(result) => result = Bool(AddonDecision)
       /\ Raised(result) =>
            /\ user.is_authenticated /\ ~addon.is_deleted /\ flags.admin
            /\ result = action_allowed_user(user, ADDONS_EDIT)

\* A deleted add-on and a user holding Addons:Edit, admin set: false.
C7_Witness ==
  /\ fn = "check_addon_ownership"
  /\ addon.is_deleted
  /\ flags.admin
  /\ Holds(user, ADDONS_EDIT)
  /\ result = False

\* check_addon_ownership was called on a disabled, not deleted add-on for an
\* authenticated user who holds Addons:Edit.
DisabledAddonEditorCall ==
  /\ fn = "check_addon_ownership"
  /\ user.is_authenticated
  /\ addon.status = STATUS_DISABLED
  /\ ~addon.is_deleted
  /\ action_allowed_user(user, ADDONS_EDIT) = True

\* C8: on a disabled, not deleted add-on, a user holding Addons:Edit gets
\* true whatever dev, admin and ignore_disabled are.
C8_DisabledAddonEditorAllowed ==
  DisabledAddonEditorCall => result = True

\* C8 (amended): on a disabled, not deleted add-on, a user holding
\* Addons:Edit gets true whatever dev and ignore_disabled are, provided admin
\* is set; with admin unset the permission is not consulted and the result
\* is true only if ignore_disabled is set and the user has the author role.
C8_DisabledAddonEditorAllowedIfAdmin ==
  DisabledAddonEditorCall
    => result = IF flags.admin THEN True
                ELSE Bool(/\ flags.ignore_disabled
                          /\ HasRole(IF flags.dev
                                     THEN {AUTHOR_ROLE_OWNER, AUTHOR_ROLE_DEV}
                                     ELSE {AUTHOR_ROLE_OWNER}))

\* Disabled add-on, no author role, ignore_disabled unset, admin set: true.
C8_Witness ==
  /\ DisabledAddonEditorCall
  /\ flags.admin
  /\ ~flags.ignore_disabled
  /\ addon.addonuser_set = {}
  /\ result = True

\* The decision list of check_collection_ownership.
CollectionDecision ==
  IF ~user.is_authenticated THEN FALSE
  ELSE IF user.id = collection.author_id THEN TRUE
  ELSE IF collection.author_id = TASK_USER_ID /\ Holds(user, ADMIN_CURATION) THEN TRUE
  ELSE IF ~flags.require_owner
       THEN collection.pk = COLLECTION_FEATURED_THEMES_ID
              /\ Holds(user, COLLECTIONS_CONTRIBUTE)
  ELSE FALSE

\* C9: check_collection_ownership returns the result of the decision list:
\* unauthenticated false; author true; task-user collection and curation
\* admin true; else, require_owner unset, featured-themes collection and
\* contribute permission; else false.  It returns nothing only when a
\* permission check it reached raised.
C9_CollectionOwnershipDecisionList ==
  fn = "check_collection_ownership"
    => /\ ~Raised(result) => result = Bool(CollectionDecision)
       /\ Raised(result) =>
            /\ user.is_authenticated
            /\ user.id # collection.author_id
            /\ \/ collection.author_id = TASK_USER_ID
               \/ ~flags.require_owner /\ collection.pk = COLLECTION_FEATURED_THEMES_ID

\* Not the author, no curation right, contribute permission, the
\* featured-themes collection, require_owner unset: true.
C9_Witness ==
  /\ fn = "check_collection_ownership"
  /\ user.is_authenticated
  /\ collection = [author_id |-> "u2", pk |-> COLLECTION_FEATURED_THEMES_ID]
  /\ ~Holds(user, ADMIN_CURATION)
  /\ Holds(user, COLLECTIONS_CONTRIBUTE)
  /\ ~flags.require_owner
  /\ result = True

====
